---- MODULE Spec2Model ----
(***************************************************************************)
(* Candidate-role fit engine: SkillGapAnalyzerTFIDF (skill gap analysis by *)
(* TF-IDF cosine similarity and greedy one-to-one matching) and            *)
(* JobReadinessScorer (skill / experience / project sub-scores and their   *)
(* weighted combination).                                                  *)
(*                                                                         *)
(* Number representation.  Cosine similarities and thresholds are tenths   *)
(* (level 10 is 1.0, level 3 is the default threshold 0.3).  Years are     *)
(* counted in units of 1/YearUnit year.  Scores are hundredths of a point  *)
(* (7500 is 75.00), which is the precision round(x, 2) leaves.  Weights    *)
(* are exact fractions num/den.  Python lists are sequences; the 0-based   *)
(* indices the code stores in its records are kept 0-based.                *)
(***************************************************************************)
EXTENDS Integers, Sequences, FiniteSets, TLC

VARIABLES pc, analyzer, args, gap, scorer_args, scorer, score_args, score,
          predictor, predict_args, prediction, calls, vectorizers

vars == <<pc, analyzer, args, gap, scorer_args, scorer, score_args, score,
          predictor, predict_args, prediction, calls, vectorizers>>

(* ------------------------------ bounds --------------------------------- *)
MaxResume == 2
MaxJob == 3
YearUnit == 2
MaxYears == 11
MaxProjects == 5
MaxRoles == 4

(* ------------------------------ helpers -------------------------------- *)
\* Python's None, where a string is expected and where a list is expected
None == "None"
NoList == <<None>>

\* dict.get(key, default)
Get(d, k, default) == IF k \in DOMAIN d THEN d[k] ELSE default

\* the empty dict {}
EmptyDict == [k \in {} |-> 0]

Max(a, b) == IF a >= b THEN a ELSE b
Min(a, b) == IF a <= b THEN a ELSE b

\* `x in list`
Elements(list) == {list[k] : k \in 1..Len(list)}

InList(x, list) == \E k \in 1..Len(list) : list[k] = x

\* all lists over S of length at most n
ListsUpTo(S, n) == UNION {[1..k -> S] : k \in 0..n}

\* the iteration orders of a set of strings under the possible hash seeds
AllOrders(S) == {l \in [1..Cardinality(S) -> S] : \A s \in S : InList(s, l)}

(* --------------------------- skill strings ----------------------------- *)
\* The skill strings of the model, and what the vectorizer's token pattern
\* \b[a-zA-Z][a-zA-Z0-9]*\b (lowercased) makes of each.
Tokens(s) ==
  CASE s = "deep learning"    -> <<"deep", "learning">>
    [] s = "machine learning" -> <<"machine", "learning">>
    [] s = "machine vision"   -> <<"machine", "vision">>
    [] s = "python"           -> <<"python">>
    [] s = "sql"              -> <<"sql">>
    [] OTHER                  -> <<>>

TokenSet(s) == {Tokens(s)[k] : k \in 1..Len(Tokens(s))}

\* cosine similarity 1.0
SimOne == 10

\* Two different skill strings that share a term: their TF-IDF vectors are
\* neither orthogonal nor parallel, so the cosine lies strictly between 0 and 1.
OverlapPairs(S) ==
  {{a, b} : a \in S, b \in S} \ {p \in {{a, b} : a \in S, b \in S} :
      \/ Cardinality(p) = 1
      \/ \A a \in p : \A b \in p \ {a} : TokenSet(a) \cap TokenSet(b) = {}}

\* cosine_similarity(resume_vectors, job_vectors)[i][j] for the strings a, b:
\* 0 for a zero vector or no shared term, 1.0 for the same terms, and otherwise
\* the value `partial` holds for the pair (it depends on the fitted IDF weights).
CosineSimilarity(a, b, partial) ==
  IF TokenSet(a) = {} \/ TokenSet(b) = {} THEN 0
  ELSE IF Tokens(a) = Tokens(b) THEN SimOne
  ELSE IF TokenSet(a) \cap TokenSet(b) = {} THEN 0
  ELSE partial[{a, b}]

\* list(set(all_skills)): the distinct skills in the iteration order of the set.
\* The order depends on the string hashes, which are seeded per process:
\* hash_order lists the strings in the order the set yields them.
UniqueSkills(all_skills, hash_order) ==
  SelectSeq(hash_order, LAMBDA s : InList(s, all_skills))

\* unique_skills.index(skill), 0-based
SkillIndex(unique_skills, skill) ==
  (CHOOSE k \in 1..Len(unique_skills) : unique_skills[k] = skill) - 1

\* mutant: the rows of the resume are taken to be the first rows of
\* skill_vectors and those of the role the rows behind them
SkillIndicesByPosition(unique_skills, resume_skills, job_role_skills) ==
  [resume |-> [i \in 1..Len(resume_skills) |-> (i - 1) % Len(unique_skills)],
   job |-> [j \in 1..Len(job_role_skills) |->
              (Len(resume_skills) + j - 1) % Len(unique_skills)]]

\* resume_indices and job_indices: the row of each skill in skill_vectors
SkillIndices(unique_skills, resume_skills, job_role_skills) ==
  [resume |-> [i \in 1..Len(resume_skills) |-> SkillIndex(unique_skills, resume_skills[i])],
   job |-> [j \in 1..Len(job_role_skills) |-> SkillIndex(unique_skills, job_role_skills[j])]]

\* skill_vectors = fit_transform(unique_skills): row k is the vector of the
\* document unique_skills[k]; the vocabulary and the IDF weights depend on the
\* set of documents only, so a row is identified by its document.
\* similarity_matrix = cosine_similarity(skill_vectors[resume_indices],
\*                                       skill_vectors[job_indices])
SimilarityMatrix(unique_skills, resume_skills, job_role_skills, partial) ==
  LET indices == SkillIndices(unique_skills, resume_skills, job_role_skills)
  IN  [i \in 1..Len(resume_skills) |->
         [j \in 1..Len(job_role_skills) |->
            CosineSimilarity(unique_skills[indices.resume[i] + 1],
                             unique_skills[indices.job[j] + 1], partial)]]

\* TfidfVectorizer.fit_transform raises ValueError ("empty vocabulary") when no
\* document yields a token.
EmptyVocabulary(unique_skills) == \A s \in unique_skills : TokenSet(s) = {}

(* ------------------------ SkillGapAnalyzerTFIDF ------------------------ *)
\* __init__: stores the threshold as given.
NewAnalyzer(similarity_threshold) ==
  [similarity_threshold |-> similarity_threshold,
   vectorizer |-> [assigned |-> FALSE],
   status |-> "constructed"]

\* the (i, j) cells in the order of the nested loops, as match records
AllPairs(resume_skills, job_role_skills, M) ==
  LET nj == Len(job_role_skills)
  IN  [k \in 1..(Len(resume_skills) * nj) |->
         LET i == ((k - 1) \div nj) + 1
             j == ((k - 1) % nj) + 1
         IN  [resume_index |-> i - 1,
              job_index |-> j - 1,
              resume_skill |-> resume_skills[i],
              job_skill |-> job_role_skills[j],
              similarity |-> M[i][j]]]

\* mutant: the comparison of the threshold test inverted
IsPotentialMatchInverted(similarity, threshold) == similarity <= threshold

\* mutant: a similarity equal to the threshold is no match
IsPotentialMatchStrict(similarity, threshold) == similarity > threshold

IsPotentialMatch(similarity, threshold) == similarity >= threshold

PotentialMatches(resume_skills, job_role_skills, M, threshold) ==
  SelectSeq(AllPairs(resume_skills, job_role_skills, M),
            LAMBDA m : IsPotentialMatch(m.similarity, threshold))

\* list.sort(key=similarity, reverse=True): stable, so equal similarities keep
\* their order.  Insert x behind every element that is not smaller.
RECURSIVE InsertSorted(_, _)
InsertSorted(x, sorted) ==
  IF sorted = <<>> THEN <<x>>
  ELSE IF Head(sorted).similarity >= x.similarity
       THEN <<Head(sorted)>> \o InsertSorted(x, Tail(sorted))
       ELSE <<x>> \o sorted

\* mutant: the potential matches are not sorted
SortOmitted(list) == list

RECURSIVE SortBySimilarity(_)
SortBySimilarity(list) ==
  IF list = <<>> THEN <<>>
  ELSE InsertSorted(list[Len(list)], SortBySimilarity(SubSeq(list, 1, Len(list) - 1)))

\* mutant: the resume index is not checked
IsFreeJobOnly(match, resume_matched, job_matched) ==
  match.job_index \notin job_matched

IsFree(match, resume_matched, job_matched) ==
  /\ match.resume_index \notin resume_matched
  /\ match.job_index \notin job_matched

RECURSIVE Greedy(_, _, _, _)
Greedy(potential, matched, resume_matched, job_matched) ==
  IF potential = <<>> THEN matched
  ELSE LET match == Head(potential)
       IN  IF IsFree(match, resume_matched, job_matched)
           THEN Greedy(Tail(potential),
                       Append(matched,
                              [resume_skill |-> match.resume_skill,
                               job_skill |-> match.job_skill,
                               similarity |-> match.similarity,
                               resume_index |-> match.resume_index,
                               job_index |-> match.job_index]),
                       resume_matched \cup {match.resume_index},
                       job_matched \cup {match.job_index})
           ELSE Greedy(Tail(potential), matched, resume_matched, job_matched)

\* _find_matches: the matched pairs (the matched job indices are their job_index)
FindMatches(resume_skills, job_role_skills, M, threshold) ==
  Greedy(SortBySimilarity(PotentialMatches(resume_skills, job_role_skills, M, threshold)),
         <<>>, {}, {})

JobMatchedIndices(matched_skills) ==
  {matched_skills[k].job_index : k \in 1..Len(matched_skills)}

\* mutant: the resume indices are collected from the job_index field
ResumeMatchedIndicesFromJob(matched_skills) == JobMatchedIndices(matched_skills)

ResumeMatchedIndices(matched_skills) ==
  {matched_skills[k].resume_index : k \in 1..Len(matched_skills)}

\* [list[i] for i in range(len(list)) if i not in indices]
Unmatched(list, indices) ==
  LET keep == {k \in 1..Len(list) : (k - 1) \notin indices}
      F[k \in 0..Len(list)] ==
        IF k = 0 THEN <<>>
        ELSE IF k \in keep THEN Append(F[k - 1], list[k]) ELSE F[k - 1]
  IN  F[Len(list)]

\* [s for s in missing_skills if s in category]
Categorize(missing_skills, category) ==
  SelectSeq(missing_skills, LAMBDA s : InList(s, category))

\* np.mean of the matched similarities (0 when nothing matched), as a fraction
RECURSIVE SumSimilarity(_)
SumSimilarity(matched_skills) ==
  IF matched_skills = <<>> THEN 0
  ELSE Head(matched_skills).similarity + SumSimilarity(Tail(matched_skills))

AverageSimilarity(matched_skills) ==
  IF matched_skills = <<>> THEN [num |-> 0, den |-> 1]
  ELSE [num |-> SumSimilarity(matched_skills), den |-> Len(matched_skills)]

\* list.index(x): the 0-based position of the first occurrence
IndexOf(list, x) == (CHOOSE k \in 1..Len(list) : list[k] = x /\ \A h \in 1..(k - 1) : list[h] # x) - 1

\* the loop over the resume skills in _generate_explanations: the first resume
\* skill with the strictly highest similarity to the job skill, from (0, None)
RECURSIVE Closest(_, _, _, _, _, _)
Closest(resume_skills, M, job_index, i, max_similarity, closest_resume_skill) ==
  IF i > Len(resume_skills)
  THEN [max_similarity |-> max_similarity, closest_resume_skill |-> closest_resume_skill]
  ELSE IF M[i][job_index + 1] > max_similarity
       THEN Closest(resume_skills, M, job_index, i + 1, M[i][job_index + 1], resume_skills[i])
       ELSE Closest(resume_skills, M, job_index, i + 1, max_similarity, closest_resume_skill)

\* the explanation written for one missing skill; the text is kept as its kind
\* and the values it interpolates
Explain(missing_skill, resume_skills, job_role_skills, M, threshold) ==
  LET c == Closest(resume_skills, M, IndexOf(job_role_skills, missing_skill), 1, 0, None)
  IN  IF c.max_similarity < threshold
      THEN IF c.closest_resume_skill # None /\ c.closest_resume_skill # ""
           THEN [kind |-> "closest_below_threshold",
                 closest_resume_skill |-> c.closest_resume_skill,
                 max_similarity |-> c.max_similarity,
                 threshold |-> threshold]
           ELSE [kind |-> "not_in_resume"]
      ELSE [kind |-> "algorithm_constraints"]

\* _generate_explanations: a dict keyed by the missing skill string
GenerateExplanations(missing_skills, resume_skills, job_role_skills, M, threshold) ==
  [s \in {missing_skills[k] : k \in 1..Len(missing_skills)} |->
     Explain(s, resume_skills, job_role_skills, M, threshold)]

\* the early return for an empty resume or job list
EmptyResult(resume_skills, job_role_skills) ==
  [matched_skills |-> <<>>,
   missing_skills |-> job_role_skills,
   extra_skills |-> resume_skills,
   match_details |-> EmptyDict,
   explanations |-> EmptyDict]

\* analyze_gaps past the early return and the vectorizer
FullResult(resume_skills, job_role_skills, required_in, preferred_in, M, threshold) ==
  LET required_skills == IF required_in = NoList THEN job_role_skills ELSE required_in
      preferred_skills == IF required_in = NoList \/ preferred_in = NoList
                          THEN <<>> ELSE preferred_in
      matched_skills == FindMatches(resume_skills, job_role_skills, M, threshold)
      missing_skills == Unmatched(job_role_skills, JobMatchedIndices(matched_skills))
      extra_skills == Unmatched(resume_skills, ResumeMatchedIndices(matched_skills))
  IN  [matched_skills |-> matched_skills,
       missing_skills |-> missing_skills,
       missing_required |-> Categorize(missing_skills, required_skills),
       missing_preferred |-> Categorize(missing_skills, preferred_skills),
       extra_skills |-> extra_skills,
       match_details |->
         [total_resume_skills |-> Len(resume_skills),
          total_job_skills |-> Len(job_role_skills),
          matched_count |-> Len(matched_skills),
          missing_count |-> Len(missing_skills),
          extra_count |-> Len(extra_skills),
          match_percentage |-> [num |-> Len(matched_skills) * 100,
                                den |-> Len(job_role_skills)],
          average_similarity |-> AverageSimilarity(matched_skills)],
       explanations |-> GenerateExplanations(missing_skills, resume_skills,
                                             job_role_skills, M, threshold),
       similarity_matrix |-> M]


(* --------------------------- JobReadinessScorer ------------------------ *)
\* round(x, 2) of the fraction num/den (den > 0), where num is in hundredths:
\* to the nearest hundredth, a tie to the even one
RoundHalfEvenNat(num, den) ==
  LET q == num \div den
      r == num % den
  IN  IF 2 * r < den THEN q
      ELSE IF 2 * r > den THEN q + 1
      ELSE IF q % 2 = 0 THEN q ELSE q + 1

\* mutant: no rounding, the hundredths are cut off
Round2Truncating(num, den) == IF num >= 0 THEN num \div den ELSE -((-num) \div den)

Round2(num, den) ==
  IF num >= 0 THEN RoundHalfEvenNat(num, den) ELSE -RoundHalfEvenNat(-num, den)

optimal_experience_years == 3

\* __init__: the weights (any numbers, here integers) are normalised by their
\* sum when it is positive and replaced by the defaults otherwise.  A weight is
\* the fraction *_weight / weight_den.
NewScorer(skill_weight, experience_weight, project_weight) ==
  LET total_weight == skill_weight + experience_weight + project_weight
  IN  IF total_weight > 0
      THEN [skill_weight |-> skill_weight,
            experience_weight |-> experience_weight,
            project_weight |-> project_weight,
            weight_den |-> total_weight,
            min_experience_years |-> 0,
            optimal_experience_years |-> optimal_experience_years,
            max_experience_years |-> 10,
            status |-> "constructed"]
      ELSE [skill_weight |-> 60,
            experience_weight |-> 25,
            project_weight |-> 15,
            weight_den |-> 100,
            min_experience_years |-> 0,
            optimal_experience_years |-> optimal_experience_years,
            max_experience_years |-> 10,
            status |-> "constructed"]

\* mutant: the penalty for missing required skills is not applied
SkillPenaltyNone(missing_required) == 0

\* min(30, len(missing_required) * 10), in hundredths
SkillPenalty(missing_required) == Min(3000, Len(missing_required) * 1000)

\* _calculate_skill_score, in hundredths
CalculateSkillScore(skill_gap_results) ==
  LET match_details == Get(skill_gap_results, "match_details", EmptyDict)
      missing_required == Get(skill_gap_results, "missing_required", <<>>)
      matched_skills == Get(skill_gap_results, "matched_skills", <<>>)
      total_job_skills == Get(match_details, "total_job_skills", 0)
      matched_count == Get(match_details, "matched_count", 0)
      \* base_score = num / total_job_skills hundredths
      base_num == matched_count * 10000
      total_required == Len(missing_required) + Len(matched_skills)
      penalised == IF total_required > 0 /\ missing_required # <<>>
                   THEN Max(0, base_num - SkillPenalty(missing_required) * total_job_skills)
                   ELSE base_num
      clamped == Max(0, Min(10000 * total_job_skills, penalised))
  IN  IF total_job_skills = 0 THEN 10000
      ELSE Round2(clamped, total_job_skills)

\* mutant: the at-required case is tested after the optimal band
ExperienceScoreBandFirst(experience_years_in, required_years) ==
  LET experience_years == IF experience_years_in < 0 THEN 0 ELSE experience_years_in
      optimal == optimal_experience_years * YearUnit
  IN  IF experience_years = 0 THEN 0
      ELSE IF experience_years >= optimal /\ experience_years <= 5 * YearUnit THEN 10000
      ELSE IF experience_years < required_years
           THEN Max(0, Min(10000, Round2(5000 * experience_years, required_years)))
      ELSE IF experience_years = required_years THEN 7500
      ELSE IF experience_years < optimal
           THEN Max(0, Min(10000,
                  Round2(7500 * (optimal - required_years)
                           + 2500 * (experience_years - required_years),
                         optimal - required_years)))
      ELSE Max(0, Min(10000,
             Round2(Max(9000 * YearUnit,
                        10000 * YearUnit
                          - Min(1000 * YearUnit, 200 * (experience_years - 5 * YearUnit))),
                    YearUnit)))

\* mutant: a negative experience is scored as given
ClampExperienceNone(experience_years) == experience_years

\* if experience_years < 0: experience_years = 0
ClampExperience(experience_years) ==
  IF experience_years < 0 THEN 0 ELSE experience_years

\* mutant: "between required and optimal" is tested against the upper end of
\* the optimal range
ExperienceCaseUpperOptimal(experience_years_in, required_years) ==
  LET experience_years == ClampExperience(experience_years_in)
  IN  IF experience_years = 0 THEN "no_experience"
      ELSE IF experience_years < required_years THEN "below_required"
      ELSE IF experience_years = required_years THEN "at_required"
      ELSE IF experience_years < 5 * YearUnit THEN "between"
      ELSE IF experience_years <= 5 * YearUnit THEN "optimal"
      ELSE "beyond"

\* the branch of the if/elif chain of _calculate_experience_score (cases 1-6)
ExperienceCase(experience_years_in, required_years) ==
  LET experience_years == ClampExperience(experience_years_in)
  IN  IF experience_years = 0 THEN "no_experience"
      ELSE IF experience_years < required_years THEN "below_required"
      ELSE IF experience_years = required_years THEN "at_required"
      ELSE IF experience_years < optimal_experience_years * YearUnit THEN "between"
      ELSE IF experience_years <= 5 * YearUnit THEN "optimal"
      ELSE "beyond"

\* the divisor of the branch taken (1 where the branch does not divide); a
\* divisor of 0 raises ZeroDivisionError
ExperienceDivisor(experience_years_in, required_years) ==
  LET c == ExperienceCase(experience_years_in, required_years)
  IN  IF c = "below_required" THEN required_years
      ELSE IF c = "between" THEN optimal_experience_years * YearUnit - required_years
      ELSE 1

\* _calculate_experience_score, in hundredths; the years are in 1/YearUnit
CalculateExperienceScore(experience_years_in, required_years) ==
  LET experience_years == ClampExperience(experience_years_in)
      optimal == optimal_experience_years * YearUnit
      c == ExperienceCase(experience_years_in, required_years)
  IN  IF c = "no_experience" THEN 0
      ELSE IF c = "below_required"
           THEN Max(0, Min(10000, Round2(5000 * experience_years, required_years)))
      ELSE IF c = "at_required" THEN 7500
      ELSE IF c = "between"
           THEN Max(0, Min(10000,
                  Round2(7500 * (optimal - required_years)
                           + 2500 * (experience_years - required_years),
                         optimal - required_years)))
      ELSE IF c = "optimal" THEN 10000
      ELSE Max(0, Min(10000,
             Round2(Max(9000 * YearUnit,
                        10000 * YearUnit
                          - Min(1000 * YearUnit, 200 * (experience_years - 5 * YearUnit))),
                    YearUnit)))

\* mutant: 30 points per project up to 100
ProjectScoreLinear(project_count) == Min(10000, 3000 * project_count)

\* _calculate_project_score on len(projects), in hundredths
CalculateProjectScore(project_count) ==
  IF project_count = 0 THEN 0
  ELSE IF project_count = 1 THEN 3000
  ELSE IF project_count = 2 THEN 6000
  ELSE IF project_count = 3 THEN 8500
  ELSE 10000

\* mutant: the overall score is not clamped
ClampScoreNone(x) == x

\* max(0, min(100, x)), in hundredths
ClampScore(x) == Max(0, Min(10000, x))

\* calculate_score: the three sub-scores, their weighted sum rounded to two
\* decimals and clamped, the breakdown and the calculation steps.  A
\* contribution value * weight is the fraction num / weight_den hundredths.
CalculateScoreResult(sc, skill_gap_results, experience_years, project_count, required) ==
  LET skill_score == CalculateSkillScore(skill_gap_results)
      experience_score == CalculateExperienceScore(experience_years, required)
      project_score == CalculateProjectScore(project_count)
      weighted == skill_score * sc.skill_weight
                    + experience_score * sc.experience_weight
                    + project_score * sc.project_weight
      overall_score == ClampScore(Round2(weighted, sc.weight_den))
  IN  [overall_score |-> overall_score,
       breakdown |-> [skills |-> skill_score,
                      experience |-> experience_score,
                      projects |-> project_score],
       calculation_steps |->
         [skill_score |-> [value |-> skill_score,
                           weight |-> [num |-> sc.skill_weight, den |-> sc.weight_den],
                           contribution |-> [num |-> skill_score * sc.skill_weight,
                                             den |-> sc.weight_den]],
          experience_score |-> [value |-> experience_score,
                                weight |-> [num |-> sc.experience_weight, den |-> sc.weight_den],
                                contribution |-> [num |-> experience_score * sc.experience_weight,
                                                  den |-> sc.weight_den]],
          project_score |-> [value |-> project_score,
                             weight |-> [num |-> sc.project_weight, den |-> sc.weight_den],
                             contribution |-> [num |-> project_score * sc.project_weight,
                                               den |-> sc.weight_den]],
          overall_calculation |-> [result |-> overall_score]]]


(* ------------------------ RoleSuitabilityPredictor --------------------- *)
\* __init__: stores the threshold (a score in hundredths) as given.
NewPredictor(suitability_threshold) ==
  [suitability_threshold |-> suitability_threshold, status |-> "constructed"]

\* sorted(readiness_scores.items(), key=lambda x: x[1], reverse=True): an item
\* is <<role_name, score>>; the sort is stable, so items of equal score keep the
\* order of the mapping.  Insert x behind every item that is not smaller.
RECURSIVE InsertByScore(_, _)
InsertByScore(x, sorted) ==
  IF sorted = <<>> THEN <<x>>
  ELSE IF Head(sorted)[2] >= x[2]
       THEN <<Head(sorted)>> \o InsertByScore(x, Tail(sorted))
       ELSE <<x>> \o sorted

\* mutant: items of equal score end up in reverse order
RECURSIVE SortedRolesReversingTies(_)
SortedRolesReversingTies(items) ==
  IF items = <<>> THEN <<>>
  ELSE InsertByScore(Head(items), SortedRolesReversingTies(Tail(items)))

RECURSIVE SortedRoles(_)
SortedRoles(items) ==
  IF items = <<>> THEN <<>>
  ELSE InsertByScore(items[Len(items)], SortedRoles(SubSeq(items, 1, Len(items) - 1)))

\* match_details.get('match_percentage', 0), as a fraction
MatchPercentage(match_details) ==
  Get(match_details, "match_percentage", [num |-> 0, den |-> 1])

\* _generate_suitability_reasons: each reason is kept as its kind and the
\* values its text interpolates
GenerateSuitabilityReasons(role_name, role_score, missing_required, missing_preferred, match_details) ==
  LET match_pct == MatchPercentage(match_details)
      matched_count == Get(match_details, "matched_count", 0)
  IN  <<[kind |-> IF role_score >= 8000 THEN "Excellent readiness role_score"
                  ELSE IF role_score >= 6500 THEN "Good readiness role_score"
                  ELSE "Moderate readiness role_score",
         score |-> role_score]>>
      \o (IF match_pct.num >= 80 * match_pct.den
          THEN <<[kind |-> "Strong skill match", match_pct |-> match_pct]>>
          ELSE IF match_pct.num >= 60 * match_pct.den
          THEN <<[kind |-> "Good skill match", match_pct |-> match_pct]>>
          ELSE <<>>)
      \o (IF missing_required = <<>>
          THEN <<[kind |-> "All required skills are present"]>>
          ELSE IF Len(missing_required) <= 2
          THEN <<[kind |-> "Only N required skill(s) missing",
                  count |-> Len(missing_required)]>>
          ELSE <<>>)
      \o (IF matched_count > 0
          THEN <<[kind |-> "N skills matched successfully", count |-> matched_count]>>
          ELSE <<>>)

\* _generate_unsuitability_reasons
GenerateUnsuitabilityReasons(role_name, role_score, missing_required, missing_preferred, match_details) ==
  LET match_pct == MatchPercentage(match_details)
      reasons ==
        <<[kind |-> IF role_score < 3500 THEN "Very low readiness role_score"
                    ELSE "Below threshold readiness role_score",
           score |-> role_score]>>
        \o (IF missing_required # <<>>
            THEN IF Len(missing_required) >= 3
                 THEN <<[kind |-> "Missing N critical required skills",
                         count |-> Len(missing_required)],
                        [kind |-> "Critical gaps",
                         skills |-> SubSeq(missing_required, 1, 3)]>>
                 ELSE <<[kind |-> "Missing required skills", skills |-> missing_required]>>
            ELSE <<>>)
        \o (IF match_pct.num < 50 * match_pct.den
            THEN <<[kind |-> "Low skill match", match_pct |-> match_pct]>>
            ELSE <<>>)
        \o (IF InList("Deep Learning", missing_required) \/ InList("TensorFlow", missing_required)
            THEN <<[kind |-> "Lacks deployment and advanced ML experience"]>>
            ELSE <<>>)
        \o (IF InList("Statistics", missing_required)
            THEN <<[kind |-> "Missing statistical foundations"]>>
            ELSE <<>>)
        \o (IF InList("AWS", missing_required) \/ InList("Docker", missing_required)
            THEN <<[kind |-> "Lacks cloud/deployment experience"]>>
            ELSE <<>>)
  IN  IF Len(reasons) = 1
      THEN Append(reasons, [kind |-> "Significant skill gaps need to be addressed"])
      ELSE reasons

\* mutant: the runner-ups are the roles from the first on
RunnerUpsFromFirst(best_fit_roles) ==
  SubSeq(best_fit_roles, 1, Min(2, Len(best_fit_roles)))

\* best_fit_roles[1:3]
RunnerUps(best_fit_roles) ==
  SubSeq(best_fit_roles, 2, Min(3, Len(best_fit_roles)))

\* mutant: a single entry when no role is suitable
NoRolesRecommendationsSingle ==
  <<[kind |-> "No roles meet the suitability threshold"]>>

\* the entries appended when best_fit_roles is empty
NoRolesRecommendations ==
  <<[kind |-> "No roles meet the suitability threshold"],
    [kind |-> "Focus on building core skills before targeting specific roles"]>>

\* _generate_recommendations: each recommendation is kept as its kind and the
\* values its text interpolates
GenerateRecommendations(best_fit_roles, not_suitable_roles) ==
  (IF best_fit_roles # <<>>
   THEN <<[kind |-> "Best match",
           role_name |-> best_fit_roles[1].role_name,
           readiness_score |-> best_fit_roles[1].readiness_score]>>
        \o (IF Len(best_fit_roles) > 1
            THEN <<[kind |-> "Also consider",
                    role_names |-> [k \in 1..Len(RunnerUps(best_fit_roles)) |->
                                      RunnerUps(best_fit_roles)[k].role_name]]>>
            ELSE <<>>)
   ELSE NoRolesRecommendations)
  \o (IF not_suitable_roles # <<>>
      THEN <<[kind |-> "Not recommended",
              role_name |-> not_suitable_roles[1].role_name,
              reason |-> not_suitable_roles[1].reasons[1]]>>
      ELSE <<>>)

\* mutant: a score equal to the threshold is not suitable
IsSuitableStrict(role_score, suitability_threshold) == role_score > suitability_threshold

\* score >= self.suitability_threshold
IsSuitable(role_score, suitability_threshold) == role_score >= suitability_threshold

\* one entry of best_fit_roles or not_suitable_roles; a role_descriptions that
\* is None or empty gives the description ''
RoleEntry(item, suitable, skill_gaps, role_descriptions) ==
  LET gap_info == Get(skill_gaps, item[1], EmptyDict)
      missing_required == Get(gap_info, "missing_required", <<>>)
      missing_preferred == Get(gap_info, "missing_preferred", <<>>)
      match_details == Get(gap_info, "match_details", EmptyDict)
  IN  [role_name |-> item[1],
       readiness_score |-> item[2],
       reasons |-> IF suitable
                   THEN GenerateSuitabilityReasons(item[1], item[2], missing_required,
                                                   missing_preferred, match_details)
                   ELSE GenerateUnsuitabilityReasons(item[1], item[2], missing_required,
                                                     missing_preferred, match_details),
       description |-> IF DOMAIN role_descriptions # {}
                       THEN Get(role_descriptions, item[1], "")
                       ELSE ""]

\* predict_suitability: readiness_scores is the sequence of its items in the
\* iteration order of the mapping
PredictSuitabilityResult(pred, readiness_scores, skill_gaps, role_descriptions) ==
  LET sorted_roles == SortedRoles(readiness_scores)
      suitable == SelectSeq(sorted_roles,
                            LAMBDA x : IsSuitable(x[2], pred.suitability_threshold))
      unsuitable == SelectSeq(sorted_roles,
                              LAMBDA x : ~IsSuitable(x[2], pred.suitability_threshold))
      best_fit_roles == [k \in 1..Len(suitable) |->
                           RoleEntry(suitable[k], TRUE, skill_gaps, role_descriptions)]
      not_suitable_roles == [k \in 1..Len(unsuitable) |->
                               RoleEntry(unsuitable[k], FALSE, skill_gaps, role_descriptions)]
  IN  [best_fit_roles |-> best_fit_roles,
       not_suitable_roles |-> not_suitable_roles,
       recommendations |-> GenerateRecommendations(best_fit_roles, not_suitable_roles)]

(* ------------------------------ the program ---------------------------- *)
\* One analysis as the application runs it: an analyzer is constructed, a gap
\* analysis is made with it, a scorer is constructed and scores the result.
NoCall == [status |-> "none"]

Init ==
  /\ pc = "start"
  /\ analyzer = NoCall
  /\ args = NoCall
  /\ gap = NoCall
  /\ scorer_args = NoCall
  /\ scorer = NoCall
  /\ score_args = NoCall
  /\ score = NoCall
  /\ predictor = NoCall
  /\ predict_args = NoCall
  /\ prediction = NoCall
  /\ calls = EmptyDict
  /\ vectorizers = EmptyDict

\* SkillGapAnalyzerTFIDF(similarity_threshold)
ConstructAnalyzer(thresholds) ==
  /\ pc = "start"
  /\ \E similarity_threshold \in thresholds :
       analyzer' = NewAnalyzer(similarity_threshold)
  /\ pc' = "analyzer_ready"
  /\ UNCHANGED <<args, gap, scorer_args, scorer, score_args, score, predictor, predict_args,
                 prediction, calls, vectorizers>>

\* the arguments of one analyze_gaps call over the skill strings S, with the
\* cosine values the fitted vectorizer gives the overlapping pairs
GapArgs(resumes, jobs, categories, partials) ==
  {[resume_skills |-> r, job_role_skills |-> j, required_skills |-> c[1],
    preferred_skills |-> c[2], partial |-> p] :
     r \in resumes, j \in jobs, c \in categories, p \in partials}

\* analyzer.analyze_gaps(resume_skills, job_role_skills, required_skills,
\* preferred_skills)
AnalyzeGaps(inputs, hash_orders) ==
  /\ pc = "analyzer_ready"
  /\ \E a \in inputs, hash_order \in hash_orders :
       /\ args' = a
       /\ IF a.resume_skills = <<>> \/ a.job_role_skills = <<>>
          THEN /\ gap' = EmptyResult(a.resume_skills, a.job_role_skills)
               /\ analyzer' = analyzer
               /\ pc' = "analyzed"
          ELSE LET unique_skills == UniqueSkills(a.resume_skills \o a.job_role_skills,
                                                 hash_order)
                   documents == {unique_skills[k] : k \in 1..Len(unique_skills)}
               IN  IF EmptyVocabulary(documents)
                   THEN \* fit_transform raises ValueError out of analyze_gaps
                        /\ gap' = gap
                        /\ analyzer' = [analyzer EXCEPT !.vectorizer =
                                          [assigned |-> TRUE, fitted |-> FALSE]]
                        /\ pc' = "analyze_raised"
                   ELSE /\ gap' = FullResult(a.resume_skills, a.job_role_skills,
                                             a.required_skills, a.preferred_skills,
                                             SimilarityMatrix(unique_skills, a.resume_skills,
                                                              a.job_role_skills, a.partial),
                                             analyzer.similarity_threshold)
                        /\ analyzer' = [analyzer EXCEPT !.vectorizer =
                                          [assigned |-> TRUE, fitted |-> TRUE,
                                           documents |-> documents]]
                        /\ pc' = "analyzed"
  /\ UNCHANGED <<scorer_args, scorer, score_args, score, predictor, predict_args, prediction,
                 calls, vectorizers>>

\* JobReadinessScorer(skill_weight, experience_weight, project_weight)
ConstructScorer(weights) ==
  /\ pc = "analyzed"
  /\ \E w \in weights :
       /\ scorer_args' = [skill_weight |-> w[1], experience_weight |-> w[2],
                          project_weight |-> w[3]]
       /\ scorer' = NewScorer(w[1], w[2], w[3])
  /\ pc' = "scorer_ready"
  /\ UNCHANGED <<analyzer, args, gap, score_args, score, predictor, predict_args, prediction,
                 calls, vectorizers>>

\* scorer.calculate_score(gap, experience_years, projects, job_required_experience)
CalculateScore(years, required, counts) ==
  /\ pc = "scorer_ready"
  /\ \E y \in years, r \in required, n \in counts :
       /\ score_args' = [experience_years |-> y, project_count |-> n,
                         job_required_experience |-> r]
       /\ IF ExperienceDivisor(y, r) = 0
          THEN \* ZeroDivisionError out of calculate_score
               /\ score' = score
               /\ pc' = "score_raised"
          ELSE /\ score' = CalculateScoreResult(scorer, gap, y, n, r)
               /\ pc' = "scored"
  /\ UNCHANGED <<analyzer, args, gap, scorer_args, scorer, predictor, predict_args, prediction,
                 calls, vectorizers>>


\* RoleSuitabilityPredictor(suitability_threshold), on its own or behind the
\* analysis and scoring of a role
ConstructPredictor(thresholds) ==
  /\ pc \in {"start", "scored"}
  /\ \E t \in thresholds : predictor' = NewPredictor(t)
  /\ pc' = "predictor_ready"
  /\ UNCHANGED <<analyzer, args, gap, scorer_args, scorer, score_args, score,
                 predict_args, prediction, calls, vectorizers>>

\* predictor.predict_suitability(readiness_scores, skill_gaps, role_descriptions)
PredictSuitability(inputs) ==
  /\ pc = "predictor_ready"
  /\ \E a \in inputs :
       /\ predict_args' = a
       /\ prediction' = PredictSuitabilityResult(predictor, a.readiness_scores,
                                                 a.skill_gaps, a.role_descriptions)
  /\ pc' = "predicted"
  /\ UNCHANGED <<analyzer, args, gap, scorer_args, scorer, score_args, score, predictor,
                 calls, vectorizers>>

\* Two calls of analyze_gaps on one analyzer instance, each in its own thread.
\* A thread runs the statements of analyze_gaps in order; the statements that
\* touch the instance are the assignment of self.vectorizer (line 94) and
\* self.vectorizer.fit_transform (line 105), which looks the attribute up again,
\* learns the vocabulary and the IDF weights into that object and then weights
\* the counts with the IDF weights the object holds.
Threads == {1, 2}

DocumentsOf(a) == Elements(a.resume_skills \o a.job_role_skills)

\* the result of a call whose vectors carry the IDF weights behind `partial`
ResultWith(a, hash_order, partial, threshold) ==
  FullResult(a.resume_skills, a.job_role_skills, a.required_skills, a.preferred_skills,
             SimilarityMatrix(UniqueSkills(a.resume_skills \o a.job_role_skills, hash_order),
                              a.resume_skills, a.job_role_skills, partial),
             threshold)

\* both threads call analyzer.analyze_gaps with different arguments; the IDF
\* weights (partial) are a function of the documents
CallAnalyzeGaps(inputs) ==
  /\ pc = "analyzer_ready"
  /\ \E a1 \in inputs, a2 \in inputs :
       /\ <<a1.resume_skills, a1.job_role_skills>> # <<a2.resume_skills, a2.job_role_skills>>
       /\ DocumentsOf(a1) = DocumentsOf(a2) => a1.partial = a2.partial
       /\ calls' = [t \in Threads |->
                      [pc |-> "called", args |-> IF t = 1 THEN a1 ELSE a2]]
  /\ vectorizers' = [o \in Threads |-> [fitted |-> FALSE]]
  /\ pc' = "interleaved"
  /\ UNCHANGED <<analyzer, args, gap, scorer_args, scorer, score_args, score, predictor,
                 predict_args, prediction>>

\* lines 71-103 in thread t: the early return, or self.vectorizer =
\* TfidfVectorizer(...), a new object (named after its thread)
AssignVectorizer(t) ==
  /\ pc = "interleaved"
  /\ calls[t].pc = "called"
  /\ LET a == calls[t].args
     IN  IF a.resume_skills = <<>> \/ a.job_role_skills = <<>>
         THEN /\ calls' = [calls EXCEPT ![t] =
                             [pc |-> "returned", args |-> a,
                              result |-> EmptyResult(a.resume_skills, a.job_role_skills)]]
              /\ UNCHANGED analyzer
         ELSE /\ calls' = [calls EXCEPT ![t] = [pc |-> "assigned", args |-> a]]
              /\ analyzer' = [analyzer EXCEPT !.vectorizer =
                                [assigned |-> TRUE, object |-> t]]
  /\ UNCHANGED <<pc, args, gap, scorer_args, scorer, score_args, score, predictor,
                 predict_args, prediction, vectorizers>>

\* line 105 in thread t, first half: self.vectorizer is read and the object
\* found there learns the vocabulary and IDF weights of this call's skills
FitVectorizer(t) ==
  /\ pc = "interleaved"
  /\ calls[t].pc = "assigned"
  /\ LET a == calls[t].args
         o == analyzer.vectorizer.object
     IN  IF EmptyVocabulary(DocumentsOf(a))
         THEN /\ calls' = [calls EXCEPT ![t] = [pc |-> "raised", args |-> a]]
              /\ UNCHANGED vectorizers
         ELSE /\ calls' = [calls EXCEPT ![t] = [pc |-> "fitted", args |-> a, v |-> o]]
              /\ vectorizers' = [vectorizers EXCEPT ![o] =
                                   [fitted |-> TRUE, documents |-> DocumentsOf(a),
                                    partial |-> a.partial]]
  /\ UNCHANGED <<pc, analyzer, args, gap, scorer_args, scorer, score_args, score, predictor,
                 predict_args, prediction>>

\* line 105 in thread t, second half, and the rest of analyze_gaps: the counts
\* of this call are weighted with the IDF weights the object holds now.  Weights
\* learned from other documents have another length or belong to other terms:
\* the transform raises, or the vectors and the similarities are those weights'.
TransformSkills(t) ==
  /\ pc = "interleaved"
  /\ calls[t].pc = "fitted"
  /\ LET a == calls[t].args
         f == vectorizers[calls[t].v]
     IN  \E hash_order \in AllOrders(DocumentsOf(a)), raises \in BOOLEAN :
           IF f.documents = DocumentsOf(a)
           THEN calls' = [calls EXCEPT ![t] =
                           [pc |-> "returned", args |-> a,
                            result |-> ResultWith(a, hash_order, a.partial,
                                                  analyzer.similarity_threshold)]]
           ELSE IF raises
           THEN calls' = [calls EXCEPT ![t] = [pc |-> "raised", args |-> a]]
           ELSE calls' = [calls EXCEPT ![t] =
                           [pc |-> "returned", args |-> a,
                            result |-> ResultWith(a, hash_order, f.partial,
                                                  analyzer.similarity_threshold)]]
  /\ UNCHANGED <<pc, analyzer, args, gap, scorer_args, scorer, score_args, score, predictor,
                 predict_args, prediction, vectorizers>>

(* ---------------------------- specifications --------------------------- *)
\* thresholds as the constructor may be given them: below 0, 0, the default
\* 0.3, 0.5 and above 1
Thresholds == {-1, 0, 3, 5, 11}

\* cosine values strictly between 0 and 1
PartialLevels == {2, 5}

Partials(S) == [OverlapPairs(S) -> PartialLevels]

\* the weights, years and project count the application passes
DefaultWeights == <<60, 25, 15>>
DefaultYears == 2 * YearUnit

\* weights as the constructor may be given them (in hundredths): the defaults,
\* their double, a negative weight with a positive sum, and sums of 0 and below
SomeWeights == {DefaultWeights, <<120, 50, 30>>, <<-50, 100, 50>>, <<0, 0, 0>>, <<-60, 25, 15>>}

\* Spec: the matching.  Three skill strings of which two pairs overlap, every
\* list of them, the categories left at their default None.
MatchSkills == {"deep learning", "machine learning", "machine vision"}

\* two seeds that enumerate the skills in opposite orders
MatchOrders ==
  {<<"deep learning", "machine learning", "machine vision">>,
   <<"machine vision", "machine learning", "deep learning">>}

MatchInputs ==
  GapArgs(ListsUpTo(MatchSkills, MaxResume), ListsUpTo(MatchSkills, MaxJob),
          {<<NoList, NoList>>}, Partials(MatchSkills))

Next ==
  \/ ConstructAnalyzer(Thresholds)
  \/ AnalyzeGaps(MatchInputs, MatchOrders)
  \/ ConstructScorer({DefaultWeights})
  \/ CalculateScore({DefaultYears}, {DefaultYears}, {0})

Spec == Init /\ [][Next]_vars

\* SpecConfig: the constructors.  Every threshold of Thresholds and all the
\* weights of SomeWeights, on a few analyses.
ConfigInputs ==
  GapArgs({<<>>, <<"python">>}, {<<>>, <<"python", "sql">>}, {<<NoList, NoList>>},
          Partials({"python", "sql"}))

NextConfig ==
  \/ ConstructAnalyzer(Thresholds)
  \/ AnalyzeGaps(ConfigInputs, AllOrders({"python", "sql"}))
  \/ ConstructScorer(SomeWeights)
  \/ CalculateScore({DefaultYears}, {DefaultYears}, {0, 3})

SpecConfig == Init /\ [][NextConfig]_vars

\* SpecClassify: the required / preferred classification.  Two skill strings
\* that overlap, every list of them, and for each category None or any list
\* (one per subset, as only membership is tested).
ClassifySkills == {"deep learning", "machine learning"}

SubsetLists(order) ==
  {SelectSeq(order, LAMBDA s : s \in T) : T \in SUBSET {order[k] : k \in 1..Len(order)}}

Categories ==
  ({NoList} \cup SubsetLists(<<"deep learning", "machine learning">>))
    \X ({NoList} \cup SubsetLists(<<"deep learning", "machine learning">>))

ClassifyInputs ==
  GapArgs(ListsUpTo(ClassifySkills, MaxResume), ListsUpTo(ClassifySkills, MaxJob),
          Categories, Partials(ClassifySkills))

NextClassify ==
  \/ ConstructAnalyzer({0, 3, 5})
  \/ AnalyzeGaps(ClassifyInputs, AllOrders(ClassifySkills))
  \/ ConstructScorer({DefaultWeights})
  \/ CalculateScore({DefaultYears}, {DefaultYears}, {0})

SpecClassify == Init /\ [][NextClassify]_vars

\* SpecScore: the scoring.  A few analyses, and every experience from below 0
\* to MaxYears, every required experience in the same range, every project
\* count up to MaxProjects and the weights of SomeWeights.
ScoreInputs == ConfigInputs

YearValues == -1 .. (MaxYears * YearUnit)

NextScore ==
  \/ ConstructAnalyzer({3})
  \/ AnalyzeGaps(ScoreInputs, AllOrders({"python", "sql"}))
  \/ ConstructScorer(SomeWeights)
  \/ CalculateScore(YearValues, YearValues, 0..MaxProjects)

SpecScore == Init /\ [][NextScore]_vars


\* Hash seeds: the same arguments under every iteration order of the set of
\* skills.
OrderInputs ==
  GapArgs(ListsUpTo(MatchSkills, MaxResume), ListsUpTo(MatchSkills, MaxJob),
          {<<NoList, NoList>>}, Partials(MatchSkills))

NextOrder ==
  \/ ConstructAnalyzer({3, 5})
  \/ AnalyzeGaps(OrderInputs, AllOrders(MatchSkills))
  \/ ConstructScorer({DefaultWeights})
  \/ CalculateScore({DefaultYears}, {DefaultYears}, {0})

SpecOrder == Init /\ [][NextOrder]_vars

\* Prediction: up to MaxRoles roles in the order of the mapping, every
\* combination of scores from below 35 to above 80 (equal scores included), gap
\* results of the analyzer for the roles or no gap results at all, and
\* thresholds at the default and above it.
RoleNames ==
  <<"Data Scientist", "ML Engineer", "Data Analyst", "Web Developer", "DevOps Engineer">>

RoleScores == {3400, 5000, 6500, 9000}

ReadinessScores ==
  UNION {{[k \in 1..n |-> <<RoleNames[k], f[k]>>] : f \in [1..n -> RoleScores]} :
           n \in 0..MaxRoles}

\* the result of an analysis at the default threshold
GapResultOf(resume_skills, job_role_skills) ==
  IF resume_skills = <<>> \/ job_role_skills = <<>>
  THEN EmptyResult(resume_skills, job_role_skills)
  ELSE FullResult(resume_skills, job_role_skills, NoList, NoList,
                  SimilarityMatrix(UniqueSkills(resume_skills \o job_role_skills,
                                                <<"python", "sql", "deep learning",
                                                  "machine learning", "machine vision">>),
                                   resume_skills, job_role_skills, EmptyDict),
                  3)

GapResults ==
  <<GapResultOf(<<>>, <<"python", "sql">>),
    GapResultOf(<<"python", "sql">>, <<"python", "sql">>),
    GapResultOf(<<"python">>, <<"deep learning", "machine learning", "machine vision">>)>>

\* skill_gaps: empty, the same result for every role, or the results in turn
SkillGaps ==
  {EmptyDict}
    \cup {[r \in Elements(RoleNames) |-> GapResults[g]] : g \in 1..Len(GapResults)}
    \cup {[r \in Elements(RoleNames) |->
             GapResults[(IndexOf(RoleNames, r) % Len(GapResults)) + 1]]}

PredictInputs ==
  {[readiness_scores |-> rs, skill_gaps |-> sg, role_descriptions |-> rd] :
     rs \in ReadinessScores, sg \in SkillGaps,
     rd \in {EmptyDict, [r \in {RoleNames[1]} |-> "description"]}}

NextPredict ==
  \/ ConstructPredictor({5000, 6500})
  \/ PredictSuitability(PredictInputs)

SpecPredict == Init /\ [][NextPredict]_vars

\* Skill strings without a token: the empty string and a number, next to a
\* skill with a token.
TokenlessSkills == {"", "123", "python"}

TokenlessInputs ==
  GapArgs(ListsUpTo(TokenlessSkills, MaxResume), ListsUpTo(TokenlessSkills, MaxJob),
          {<<NoList, NoList>>}, Partials(TokenlessSkills))

NextTokenless ==
  \/ ConstructAnalyzer({0, 3})
  \/ AnalyzeGaps(TokenlessInputs, AllOrders(TokenlessSkills))
  \/ ConstructScorer({DefaultWeights})
  \/ CalculateScore({DefaultYears}, {DefaultYears}, {0})

SpecTokenless == Init /\ [][NextTokenless]_vars

\* Interleaving: two calls on one analyzer with one candidate skill and role
\* lists that differ, every interleaving of their statements.
InterleaveInputs ==
  GapArgs({<<>>, <<"deep learning">>},
          {<<"machine learning">>, <<"machine learning", "machine vision">>},
          {<<NoList, NoList>>}, Partials(MatchSkills))

NextInterleave ==
  \/ ConstructAnalyzer({3})
  \/ CallAnalyzeGaps(InterleaveInputs)
  \/ \E t \in Threads : AssignVectorizer(t)
  \/ \E t \in Threads : FitVectorizer(t)
  \/ \E t \in Threads : TransformSkills(t)

SpecInterleave == Init /\ [][NextInterleave]_vars

\* The "Analyze All Roles" handler for one role: the role's required and
\* optional skills are analysed against the resume skills (which may be empty)
\* at the default threshold, scored with the default weights, 2.0 years against
\* 2.0 required and the projects of the resume, and the score and the gap
\* result are handed to a predictor with the default threshold.
PipelineGapInputs ==
  {[resume_skills |-> r, job_role_skills |-> required \o optional,
    required_skills |-> required, preferred_skills |-> optional, partial |-> p] :
     r \in ListsUpTo(ClassifySkills, MaxResume),
     required \in ListsUpTo(ClassifySkills, 2),
     optional \in ListsUpTo(ClassifySkills, 1),
     p \in Partials(ClassifySkills)}

\* readiness_scores[role_name] = score_results['overall_score'],
\* skill_gaps_all[role_name] = gap_results
PipelinePredictInputs ==
  IF "overall_score" \in DOMAIN score
  THEN {[readiness_scores |-> <<<<RoleNames[1], score.overall_score>>>>,
         skill_gaps |-> [r \in {RoleNames[1]} |-> gap],
         role_descriptions |-> [r \in {RoleNames[1]} |-> "description"]]}
  ELSE {}

NextPipeline ==
  \/ ConstructAnalyzer({3})
  \/ AnalyzeGaps(PipelineGapInputs, AllOrders(ClassifySkills))
  \/ ConstructScorer({DefaultWeights})
  \/ CalculateScore({DefaultYears}, {DefaultYears}, {0, 4})
  \/ ConstructPredictor({5000})
  \/ PredictSuitability(PipelinePredictInputs)

SpecPipeline == Init /\ [][NextPipeline]_vars

(* ------------------------------- claims -------------------------------- *)
\* analyze_gaps has returned
Analyzed == pc \in {"analyzed", "scorer_ready", "scored"}

\* analyze_gaps has returned past its early return
FullPath == Analyzed /\ args.resume_skills # <<>> /\ args.job_role_skills # <<>>

Scored == pc = "scored"

Count(list, s) == Cardinality({k \in 1..Len(list) : list[k] = s})

MatchedJobSkills(g) == [k \in 1..Len(g.matched_skills) |-> g.matched_skills[k].job_skill]

\* matched_count of the analysis of the same lists and matrix at threshold t
MatchedCountAt(t) ==
  Len(FindMatches(args.resume_skills, args.job_role_skills, gap.similarity_matrix, t))

\* C1: in the result of every analyze_gaps call no resume_index and no
\* job_index occurs in more than one entry of matched_skills.
C1_OneToOne ==
  Analyzed =>
    \A k, h \in 1..Len(gap.matched_skills) :
      k # h => /\ gap.matched_skills[k].resume_index # gap.matched_skills[h].resume_index
               /\ gap.matched_skills[k].job_index # gap.matched_skills[h].job_index

\* C1 witness: an analysis with two matched pairs in which a pair at or above
\* the threshold was skipped because an index was taken.
C1_Witness ==
  /\ FullPath
  /\ Len(gap.matched_skills) >= 2
  /\ Len(PotentialMatches(args.resume_skills, args.job_role_skills,
                          gap.similarity_matrix, analyzer.similarity_threshold))
       > Len(gap.matched_skills)

\* C2 (as claimed): every role skill is accounted for exactly once across the
\* job_skill of the matched pairs, missing_required and missing_preferred.
C2_Claim ==
  FullPath =>
    \A s \in Elements(args.job_role_skills) :
      Count(args.job_role_skills, s)
        = Count(MatchedJobSkills(gap), s)
            + Count(Get(gap, "missing_required", <<>>), s)
            + Count(Get(gap, "missing_preferred", <<>>), s)

\* C3 (as claimed): with an empty candidate list and a role with at least one
\* skill, matched_skills is empty and the skill sub-score is 0.
C3_Claim ==
  (Scored /\ args.resume_skills = <<>> /\ args.job_role_skills # <<>>) =>
    /\ gap.matched_skills = <<>>
    /\ score.breakdown.skills = 0

\* C4: for the same lists and similarity matrix, a threshold at or above the
\* analyzer's gives at most the matched_count of the analysis, and a threshold
\* at or below it gives at least that count.
C4_Monotone ==
  (pc = "analyzed" /\ FullPath) =>
    \A t \in Thresholds :
      /\ t >= analyzer.similarity_threshold
           => MatchedCountAt(t) <= gap.match_details.matched_count
      /\ t <= analyzer.similarity_threshold
           => MatchedCountAt(t) >= gap.match_details.matched_count

\* C4 witness: an analysis with matches of which a higher threshold keeps
\* some and loses some.
C4_Witness ==
  /\ FullPath
  /\ \E t \in Thresholds :
       /\ t > analyzer.similarity_threshold
       /\ MatchedCountAt(t) >= 1
       /\ MatchedCountAt(t) < gap.match_details.matched_count

\* C5 (as claimed): an unmatched role skill that is in both the required and
\* the preferred list is in missing_required and not in missing_preferred.
C5_Claim ==
  (FullPath /\ args.required_skills # NoList /\ args.preferred_skills # NoList) =>
    \A s \in Elements(gap.missing_skills) :
      (InList(s, args.required_skills) /\ InList(s, args.preferred_skills)) =>
        /\ InList(s, Get(gap, "missing_required", <<>>))
        /\ ~InList(s, Get(gap, "missing_preferred", <<>>))

\* C6 (as claimed): with an empty candidate or role list the result has the
\* fields of a non-empty analysis; an empty candidate list puts every role
\* skill into missing_required or missing_preferred, an empty role list every
\* candidate skill into extra_skills.
C6_Claim ==
  (Analyzed /\ (args.resume_skills = <<>> \/ args.job_role_skills = <<>>)) =>
    /\ {"missing_required", "missing_preferred", "match_details"} \subseteq DOMAIN gap
    /\ {"total_job_skills", "matched_count", "match_percentage"}
         \subseteq DOMAIN Get(gap, "match_details", EmptyDict)
    /\ args.resume_skills = <<>> =>
         \A s \in Elements(args.job_role_skills) :
           \/ InList(s, Get(gap, "missing_required", <<>>))
           \/ InList(s, Get(gap, "missing_preferred", <<>>))
    /\ args.job_role_skills = <<>> => gap.extra_skills = args.resume_skills

\* C7 (as claimed): an analyzer given a threshold outside [0, 1] and a scorer
\* given a negative weight or weights summing to 0 or less are not
\* constructed: the constructor fails with a ConfigurationError.
C7_Claim ==
  /\ (pc # "start" /\ analyzer.similarity_threshold \notin 0..SimOne)
       => analyzer.status = "ConfigurationError"
  /\ (pc \in {"scorer_ready", "scored"}
        /\ \/ scorer_args.skill_weight < 0
           \/ scorer_args.experience_weight < 0
           \/ scorer_args.project_weight < 0
           \/ scorer_args.skill_weight + scorer_args.experience_weight
                + scorer_args.project_weight <= 0)
       => scorer.status = "ConfigurationError"

\* what the skill formula max(0, matched / total * 100 - min(30, 10 * missing
\* required)) gives for the scored result, as a number of hundredths times
\* total_job_skills
SkillFormulaNum ==
  LET d == Get(gap, "match_details", EmptyDict)
      total == Get(d, "total_job_skills", 0)
      matched == Get(d, "matched_count", 0)
      missing == Len(Get(gap, "missing_required", <<>>))
  IN  Max(0, matched * 10000 - Min(3000, 1000 * missing) * total)

TotalJobSkills == Get(Get(gap, "match_details", EmptyDict), "total_job_skills", 0)

Y == IF score_args.experience_years < 0 THEN 0 ELSE score_args.experience_years
R == score_args.job_required_experience
Optimal == optimal_experience_years * YearUnit

\* C9 (as claimed): for 0 < r < 3 the experience sub-score equals 0 at y = 0,
\* (y/r)*50 for 0 < y < r, 75 at y = r, 75 + 25*(y-r)/(3-r) for r < y < 3, 100
\* for 3 <= y <= 5 and max(90, 100 - min(10, (y-5)*2)) above 5.
C9_Claim ==
  (Scored /\ score_args.experience_years >= 0 /\ R > 0 /\ R < Optimal) =>
    LET e == score.breakdown.experience
    IN  /\ Y = 0 => e = 0
        /\ (0 < Y /\ Y < R) => e * R = 5000 * Y
        /\ Y = R => e = 7500
        /\ (R < Y /\ Y < Optimal) =>
             e * (Optimal - R) = 7500 * (Optimal - R) + 2500 * (Y - R)
        /\ (Optimal <= Y /\ Y <= 5 * YearUnit) => e = 10000
        /\ Y > 5 * YearUnit =>
             e * YearUnit = Max(9000 * YearUnit,
                                10000 * YearUnit
                                  - Min(1000 * YearUnit, 200 * (Y - 5 * YearUnit)))

\* d is at most half a unit of den
WithinHalf(d, den) == 2 * d <= den /\ 2 * (0 - d) <= den

\* C9 (amended): the experience sub-score is the value of those formulas
\* rounded to two decimals (within 0.005 of it), and exactly 0, 75 and 100 in
\* the cases y = 0, y = r and 3 <= y <= 5.
C9_ExperienceScoreRounded ==
  (Scored /\ score_args.experience_years >= 0 /\ R > 0 /\ R < Optimal) =>
    LET e == score.breakdown.experience
    IN  /\ Y = 0 => e = 0
        /\ (0 < Y /\ Y < R) => WithinHalf(e * R - 5000 * Y, R)
        /\ Y = R => e = 7500
        /\ (R < Y /\ Y < Optimal) =>
             WithinHalf(e * (Optimal - R) - (7500 * (Optimal - R) + 2500 * (Y - R)),
                        Optimal - R)
        /\ (Optimal <= Y /\ Y <= 5 * YearUnit) => e = 10000
        /\ Y > 5 * YearUnit =>
             WithinHalf(e * YearUnit
                          - Max(9000 * YearUnit,
                                10000 * YearUnit
                                  - Min(1000 * YearUnit, 200 * (Y - 5 * YearUnit))),
                        YearUnit)

\* C9 witness: a score below the required experience whose value (y/r)*50 is
\* no whole number of hundredths and rounds up.
C9_Witness ==
  /\ Scored
  /\ 0 < Y /\ Y < R /\ R < Optimal
  /\ (5000 * Y) % R # 0
  /\ score.breakdown.experience = ((5000 * Y) \div R) + 1

\* C10 (as claimed): for 3 <= y <= 5 the experience sub-score is 100 for every
\* required experience.
C10_Claim ==
  (Scored /\ Optimal <= Y /\ Y <= 5 * YearUnit) => score.breakdown.experience = 10000

\* C10 (amended): for 3 <= y <= 5 the experience sub-score is 100 when the
\* required experience is below y; it is 75 when the required experience equals
\* y, and (y/r)*50 rounded to two decimals when it is above y.
C10_OptimalBand ==
  (Scored /\ Optimal <= Y /\ Y <= 5 * YearUnit) =>
    /\ R < Y => score.breakdown.experience = 10000
    /\ R = Y => score.breakdown.experience = 7500
    /\ R > Y => WithinHalf(score.breakdown.experience * R - 5000 * Y, R)

\* C10 witness: a score in the band with a required experience of 3 years or
\* more that is below y.
C10_Witness ==
  /\ Scored
  /\ Optimal <= R /\ R < Y /\ Y <= 5 * YearUnit
  /\ score.breakdown.experience = 10000


\* C11: in every result of calculate_score, overall_score and the three
\* breakdown scores lie in [0, 100], for every experience, required experience,
\* project count and weights.
C11_ScoreBounds ==
  Scored =>
    /\ score.overall_score \in 0..10000
    /\ score.breakdown.skills \in 0..10000
    /\ score.breakdown.experience \in 0..10000
    /\ score.breakdown.projects \in 0..10000

\* the weighted sum of the sub-scores before rounding and clamping, times
\* weight_den
WeightedSum ==
  score.breakdown.skills * scorer.skill_weight
    + score.breakdown.experience * scorer.experience_weight
    + score.breakdown.projects * scorer.project_weight

\* C11 witness: a score whose weighted sum is above 100 before the clamp (a
\* negative weight with the other weights above 1) and whose overall is 100.
C11_Witness ==
  /\ Scored
  /\ score_args.experience_years >= 0
  /\ WeightedSum > 10000 * scorer.weight_den
  /\ score.overall_score = 10000

\* C12 (as claimed): the effective weights of a constructed scorer are each in
\* [0, 1], sum to 1 and keep the ratios of the supplied weights.
C12_Claim ==
  pc \in {"scorer_ready", "scored"} =>
    /\ scorer.skill_weight \in 0..scorer.weight_den
    /\ scorer.experience_weight \in 0..scorer.weight_den
    /\ scorer.project_weight \in 0..scorer.weight_den
    /\ scorer.skill_weight + scorer.experience_weight + scorer.project_weight
         = scorer.weight_den
    /\ scorer.skill_weight * scorer_args.experience_weight
         = scorer.experience_weight * scorer_args.skill_weight
    /\ scorer.skill_weight * scorer_args.project_weight
         = scorer.project_weight * scorer_args.skill_weight
    /\ scorer.experience_weight * scorer_args.project_weight
         = scorer.project_weight * scorer_args.experience_weight

\* C13 (as claimed): in the calculation steps each traced value is the
\* breakdown value, each contribution is value x weight, the contributions sum
\* to overall_score up to the rounding to two decimals, and the traced result
\* is overall_score.
C13_Claim ==
  Scored =>
    LET steps == score.calculation_steps
        sum == steps.skill_score.contribution.num
                 + steps.experience_score.contribution.num
                 + steps.project_score.contribution.num
    IN  /\ steps.skill_score.value = score.breakdown.skills
        /\ steps.experience_score.value = score.breakdown.experience
        /\ steps.project_score.value = score.breakdown.projects
        /\ steps.skill_score.contribution.num
             = steps.skill_score.value * steps.skill_score.weight.num
        /\ steps.experience_score.contribution.num
             = steps.experience_score.value * steps.experience_score.weight.num
        /\ steps.project_score.contribution.num
             = steps.project_score.value * steps.project_score.weight.num
        /\ steps.skill_score.contribution.den = steps.skill_score.weight.den
        /\ steps.experience_score.contribution.den = steps.experience_score.weight.den
        /\ steps.project_score.contribution.den = steps.project_score.weight.den
        /\ WithinHalf(score.overall_score * scorer.weight_den - sum, scorer.weight_den)
        /\ steps.overall_calculation.result = score.overall_score


\* every enumeration of the distinct skills of a list
UniqueSkillLists(all_skills) == AllOrders({all_skills[k] : k \in 1..Len(all_skills)})

RECURSIVE Rebuild(_, _, _, _)
Rebuild(g, n, i, used) ==
  IF i >= n THEN IF used = Len(g.extra_skills) THEN <<>> ELSE <<None>>
  ELSE LET pairs == {k \in 1..Len(g.matched_skills) : g.matched_skills[k].resume_index = i}
       IN  IF pairs # {}
           THEN <<g.matched_skills[CHOOSE k \in pairs : TRUE].resume_skill>>
                  \o Rebuild(g, n, i + 1, used)
           ELSE IF used < Len(g.extra_skills)
           THEN <<g.extra_skills[used + 1]>> \o Rebuild(g, n, i + 1, used + 1)
           ELSE <<None>>

\* C19: every position of the candidate list is the resume_index of exactly
\* one matched pair or yields exactly one entry of extra_skills, never both:
\* the matched resume skills and extra_skills rebuild the candidate list.
C19_CandidatesAccounted ==
  Analyzed =>
    /\ \A i \in 0..(Len(args.resume_skills) - 1) :
         Cardinality({k \in 1..Len(gap.matched_skills) :
                        gap.matched_skills[k].resume_index = i}) <= 1
    /\ \A k \in 1..Len(gap.matched_skills) :
         gap.matched_skills[k].resume_index \in 0..(Len(args.resume_skills) - 1)
    /\ Len(gap.matched_skills) + Len(gap.extra_skills) = Len(args.resume_skills)
    /\ Rebuild(gap, Len(args.resume_skills), 0, 0) = args.resume_skills

\* C19 witness: a candidate list with the same skill twice, one occurrence
\* matched and the other extra.
C19_Witness ==
  /\ pc = "analyzed" /\ FullPath
  /\ Len(args.resume_skills) = 2
  /\ args.resume_skills[1] = args.resume_skills[2]
  /\ Len(gap.matched_skills) = 1
  /\ gap.extra_skills = <<args.resume_skills[1]>>

\* the highest similarity of a candidate skill to the role skill at position j
MaxSimilarityTo(j) ==
  LET col == {gap.similarity_matrix[i][j] : i \in 1..Len(args.resume_skills)}
  IN  CHOOSE x \in col : \A y \in col : y <= x

\* C20 (as claimed): every missing role skill has an entry in explanations;
\* with no candidate skills the entry says so, and otherwise it names a
\* candidate skill of the highest similarity to the role skill and carries that
\* similarity and the threshold.
C20_Claim ==
  Analyzed =>
    \A j \in 1..Len(args.job_role_skills) :
      InList(args.job_role_skills[j], gap.missing_skills) =>
        /\ args.job_role_skills[j] \in DOMAIN gap.explanations
        /\ LET e == gap.explanations[args.job_role_skills[j]]
           IN  IF args.resume_skills = <<>>
               THEN e.kind = "not_in_resume"
               ELSE /\ "closest_resume_skill" \in DOMAIN e
                    /\ \E i \in 1..Len(args.resume_skills) :
                         /\ args.resume_skills[i] = e.closest_resume_skill
                         /\ gap.similarity_matrix[i][j] = MaxSimilarityTo(j)
                    /\ e.max_similarity = MaxSimilarityTo(j)
                    /\ e.threshold = analyzer.similarity_threshold


\* predict_suitability has returned
Predicted == pc = "predicted"

RoleNamesOf(roles) == [k \in 1..Len(roles) |-> roles[k].role_name]

\* C14: every role of readiness_scores is in exactly one of best_fit_roles and
\* not_suitable_roles, once, and it is in best_fit_roles exactly when its score
\* is at or above the threshold; the lists hold no other role.
C14_Partition ==
  Predicted =>
    /\ \A k \in 1..Len(predict_args.readiness_scores) :
         LET item == predict_args.readiness_scores[k]
             best == Count(RoleNamesOf(prediction.best_fit_roles), item[1])
             rest == Count(RoleNamesOf(prediction.not_suitable_roles), item[1])
         IN  /\ best + rest = 1
             /\ best = 1 <=> item[2] >= predictor.suitability_threshold
    /\ Len(prediction.best_fit_roles) + Len(prediction.not_suitable_roles)
         = Len(predict_args.readiness_scores)

\* C14 witness: scores 90 and 34 at the threshold 50 give one best-fit role
\* and one not-suitable role.
C14_Witness ==
  /\ Predicted
  /\ predictor.suitability_threshold = 5000
  /\ predict_args.readiness_scores = <<<<RoleNames[1], 9000>>, <<RoleNames[2], 3400>>>>
  /\ RoleNamesOf(prediction.best_fit_roles) = <<RoleNames[1]>>
  /\ RoleNamesOf(prediction.not_suitable_roles) = <<RoleNames[2]>>

\* position of a role in the iteration order of readiness_scores
PositionOf(role_name) ==
  CHOOSE k \in 1..Len(predict_args.readiness_scores) :
    predict_args.readiness_scores[k][1] = role_name

\* descending by score, equal scores in the order of readiness_scores
OrderedByScore(roles) ==
  \A k, h \in 1..Len(roles) :
    k < h =>
      /\ roles[k].readiness_score >= roles[h].readiness_score
      /\ roles[k].readiness_score = roles[h].readiness_score
           => PositionOf(roles[k].role_name) < PositionOf(roles[h].role_name)

\* C15: best_fit_roles and not_suitable_roles are each ordered by
\* readiness_score descending, and roles of equal score keep the relative order
\* of the readiness_scores mapping.
C15_Ordered ==
  Predicted =>
    /\ OrderedByScore(prediction.best_fit_roles)
    /\ OrderedByScore(prediction.not_suitable_roles)

\* C15 witness: two roles of equal score behind a role of a lower score in
\* the mapping, all best-fit: the lower score is ranked last and the equal
\* scores keep their order.
C15_Witness ==
  /\ Predicted
  /\ Len(predict_args.readiness_scores) = 3
  /\ predict_args.readiness_scores[1][2] = 5000
  /\ predict_args.readiness_scores[2][2] = 9000
  /\ predict_args.readiness_scores[3][2] = 9000
  /\ RoleNamesOf(prediction.best_fit_roles) = <<RoleNames[2], RoleNames[3], RoleNames[1]>>

\* C16 (as claimed): for an empty readiness_scores both lists are empty and
\* recommendations has exactly one entry.
C16_Claim ==
  (Predicted /\ predict_args.readiness_scores = <<>>) =>
    /\ prediction.best_fit_roles = <<>>
    /\ prediction.not_suitable_roles = <<>>
    /\ Len(prediction.recommendations) = 1

\* C16 (amended): for an empty readiness_scores both lists are empty and
\* recommendations has exactly two entries: that no role meets the threshold,
\* and the advice to build core skills first.
C16_EmptyScores ==
  (Predicted /\ predict_args.readiness_scores = <<>>) =>
    /\ prediction.best_fit_roles = <<>>
    /\ prediction.not_suitable_roles = <<>>
    /\ Len(prediction.recommendations) = 2
    /\ prediction.recommendations[1].kind = "No roles meet the suitability threshold"
    /\ prediction.recommendations[2].kind
         = "Focus on building core skills before targeting specific roles"

\* C16 witness: a prediction for an empty readiness_scores with gap results
\* supplied.
C16_Witness ==
  /\ Predicted
  /\ predict_args.readiness_scores = <<>>
  /\ predict_args.skill_gaps # EmptyDict
  /\ prediction.recommendations # <<>>

\* the recommendations with the entries of the given kinds removed
Without(recommendations, kinds) ==
  SelectSeq(recommendations, LAMBDA e : e.kind \notin kinds)

ScoreCalled == pc \in {"scored", "score_raised"}

\* C21: a call of calculate_score with a negative experience_years raises
\* nothing and returns the result of the same call with experience_years = 0,
\* whose experience sub-score is 0, for every required experience.
C21_NegativeYears ==
  (ScoreCalled /\ score_args.experience_years < 0) =>
    /\ pc = "scored"
    /\ score = CalculateScoreResult(scorer, gap, 0, score_args.project_count,
                                    score_args.job_required_experience)
    /\ score.breakdown.experience = 0
    /\ score.calculation_steps.experience_score.value = 0

\* C21 witness: negative experience against a negative required experience
\* (the years equal the requirement as given, and differ from it once clamped).
C21_Witness ==
  /\ Scored
  /\ score_args.experience_years < 0
  /\ score_args.job_required_experience = score_args.experience_years
  /\ score.breakdown.experience = 0

\* C22: calculate_score never raises ZeroDivisionError, whatever the
\* experience and the required experience (0 and 3 years included), and with a
\* required experience <= 0 and an experience > 0 the below-required branch is
\* not taken: the experience sub-score is at least 75.
C22_NoMinimum ==
  /\ pc # "score_raised"
  /\ (Scored /\ R <= 0 /\ Y > 0) =>
       /\ ExperienceCase(score_args.experience_years, R) # "below_required"
       /\ score.breakdown.experience >= 7500

\* C22 witness: no required experience (r = 0) and an experience between 0
\* and 3 years: the between branch divides by 3 - r and scores above 75.
C22_Witness ==
  /\ Scored
  /\ R = 0
  /\ Y > 0 /\ Y < Optimal
  /\ score.breakdown.experience > 7500

\* C23: the project sub-score is 0, 30, 60, 85 for 0, 1, 2, 3 projects and 100
\* for 4 or more, whatever the other arguments and the weights.
C23_ProjectScore ==
  Scored =>
    LET n == score_args.project_count
    IN  score.breakdown.projects =
          (CASE n = 0 -> 0
             [] n = 1 -> 3000
             [] n = 2 -> 6000
             [] n = 3 -> 8500
             [] OTHER -> 10000)

\* C23 witness: three projects score 85 with a negative weight in force.
C23_Witness ==
  /\ Scored
  /\ score_args.project_count = 3
  /\ score.breakdown.projects = 8500
  /\ scorer.skill_weight < 0


\* C24 (as claimed): a call leaves the fields of its instance as the
\* constructor set them: the analyzer (its vectorizer included) after
\* analyze_gaps, the scorer after calculate_score and the predictor after
\* predict_suitability.
C24_Claim ==
  /\ (Analyzed \/ pc = "analyze_raised") =>
       analyzer = NewAnalyzer(analyzer.similarity_threshold)
  /\ ScoreCalled =>
       scorer = NewScorer(scorer_args.skill_weight, scorer_args.experience_weight,
                          scorer_args.project_weight)
  /\ Predicted => predictor = NewPredictor(predictor.suitability_threshold)

\* a skill string whose vector is all zero
Tokenless(s) == TokenSet(s) = {}

\* C25 (as claimed): analyze_gaps never raises, also when no skill string has
\* a token; the similarity of a tokenless skill to every skill is 0 and at a
\* threshold > 0 it is in no matched pair.
C25_Claim ==
  /\ pc # "analyze_raised"
  /\ (pc = "analyzed" /\ FullPath) =>
       /\ \A i \in 1..Len(args.resume_skills), j \in 1..Len(args.job_role_skills) :
            (Tokenless(args.resume_skills[i]) \/ Tokenless(args.job_role_skills[j]))
              => gap.similarity_matrix[i][j] = 0
       /\ analyzer.similarity_threshold > 0 =>
            \A k \in 1..Len(gap.matched_skills) :
              /\ ~Tokenless(gap.matched_skills[k].resume_skill)
              /\ ~Tokenless(gap.matched_skills[k].job_skill)


\* the result of a call that runs alone on the analyzer
AloneResult(a) ==
  IF a.resume_skills = <<>> \/ a.job_role_skills = <<>>
  THEN EmptyResult(a.resume_skills, a.job_role_skills)
  ELSE ResultWith(a, CHOOSE h \in AllOrders(DocumentsOf(a)) : TRUE, a.partial,
                  analyzer.similarity_threshold)

\* C26 (as claimed): of two interleaved analyze_gaps calls on one analyzer,
\* neither raises, each fits and uses the vectorizer it assigned itself, and each
\* returns the result it returns when it runs alone.
C26_Claim ==
  pc = "interleaved" =>
    \A t \in Threads :
      /\ calls[t].pc # "raised"
      /\ calls[t].pc = "fitted" => calls[t].v = t
      /\ calls[t].pc = "returned" => calls[t].result = AloneResult(calls[t].args)


\* the pair (i, j) comes before the pair (k, h) in the order of the nested
\* loops over the candidate and the role skills
EarlierInInput(i, j, k, h) == i < k \/ (i = k /\ j < h)

\* the matched pair m was considered before the cell (i, j) of similarity x
ConsideredBefore(m, i, j, x) ==
  \/ m.similarity > x
  \/ m.similarity = x /\ EarlierInInput(m.resume_index, m.job_index, i, j)

\* C27: matched_skills lists the accepted pairs in non-increasing similarity,
\* pairs of equal similarity in input order (candidate index, then role index);
\* every accepted pair has its cell's similarity, which is >= threshold; and
\* every cell with similarity >= threshold that was not accepted has its
\* candidate index or its role index in an accepted pair considered before it.
C27_GreedyOrder ==
  (pc = "analyzed" /\ FullPath) =>
    LET ms == gap.matched_skills
        M == gap.similarity_matrix
        threshold == analyzer.similarity_threshold
    IN  /\ \A k, h \in 1..Len(ms) :
             k < h => ConsideredBefore(ms[k], ms[h].resume_index, ms[h].job_index,
                                       ms[h].similarity)
        /\ \A k \in 1..Len(ms) :
             /\ ms[k].similarity = M[ms[k].resume_index + 1][ms[k].job_index + 1]
             /\ ms[k].similarity >= threshold
        /\ \A i \in 1..Len(args.resume_skills), j \in 1..Len(args.job_role_skills) :
             (/\ M[i][j] >= threshold
              /\ \A k \in 1..Len(ms) :
                   ~(ms[k].resume_index = i - 1 /\ ms[k].job_index = j - 1))
             => \E k \in 1..Len(ms) :
                  /\ ms[k].resume_index = i - 1 \/ ms[k].job_index = j - 1
                  /\ ConsideredBefore(ms[k], i - 1, j - 1, M[i][j])

\* C27 witness: the second candidate skill has a higher similarity to the
\* second role skill than the first candidate skill has to the first; the
\* later cell is accepted first, and a cell that ties with it is skipped.
C27_Witness ==
  /\ pc = "analyzed" /\ FullPath
  /\ Len(gap.matched_skills) = 2
  /\ gap.matched_skills[1].resume_index = 1
  /\ gap.matched_skills[1].job_index = 1
  /\ gap.matched_skills[2].resume_index = 0
  /\ gap.matched_skills[2].job_index = 0
  /\ gap.matched_skills[1].similarity > gap.matched_skills[2].similarity
  /\ Len(args.job_role_skills) = 3
  /\ gap.similarity_matrix[2][3] = gap.matched_skills[1].similarity


\* the role skill at position j (1-based) is in no matched pair
MissingAt(j) == (j - 1) \notin JobMatchedIndices(gap.matched_skills)

\* the candidate skill at position i (1-based) is in no matched pair
ExtraAt(i) == (i - 1) \notin ResumeMatchedIndices(gap.matched_skills)

\* C28 (as claimed): a role skill is missing only if no candidate skill has a
\* similarity >= threshold to it, and no explanation is the one of the
\* 'matching algorithm constraints' branch.
C28_Claim ==
  (pc = "analyzed" /\ FullPath) =>
    \A j \in 1..Len(args.job_role_skills) :
      MissingAt(j) =>
        /\ \A i \in 1..Len(args.resume_skills) :
             gap.similarity_matrix[i][j] < analyzer.similarity_threshold
        /\ gap.explanations[args.job_role_skills[j]].kind # "algorithm_constraints"

\* C29: the matching is maximal: no candidate skill outside every matched
\* pair and role skill outside every matched pair have a similarity >=
\* threshold; nothing is matched on the early return, where a list is empty.
C29_Maximal ==
  /\ (pc = "analyzed" /\ FullPath) =>
       \A i \in 1..Len(args.resume_skills), j \in 1..Len(args.job_role_skills) :
         (ExtraAt(i) /\ MissingAt(j))
           => gap.similarity_matrix[i][j] < analyzer.similarity_threshold
  /\ (pc = "analyzed" /\ ~FullPath) => gap.matched_skills = <<>>

\* C29 witness: an extra candidate skill and a missing role skill are left
\* over after a match, with a similarity above 0 and below the threshold.
C29_Witness ==
  /\ pc = "analyzed" /\ FullPath
  /\ gap.matched_skills # <<>>
  /\ \E i \in 1..Len(args.resume_skills), j \in 1..Len(args.job_role_skills) :
       /\ ExtraAt(i) /\ MissingAt(j)
       /\ gap.similarity_matrix[i][j] > 0


\* the verdicts of a prediction
Verdicts == prediction.best_fit_roles \o prediction.not_suitable_roles

\* the verdict carries the reason 'All required skills are present'
AllRequiredPresent(verdict) ==
  \E k \in 1..Len(verdict.reasons) :
    verdict.reasons[k].kind = "All required skills are present"

\* C30 (as claimed): in the pipeline a verdict has the reason 'All required
\* skills are present' only if every required skill of the role (the first
\* positions of the analysed list) is in a matched pair; with no resume skills
\* and a required skill no verdict has it.
C30_Claim ==
  Predicted /\ "resume_skills" \in DOMAIN args =>
    \A v \in 1..Len(Verdicts) :
      AllRequiredPresent(Verdicts[v]) =>
        \A k \in 1..Len(args.required_skills) :
          (k - 1) \in JobMatchedIndices(gap.matched_skills)

====
